---- MODULE Spec2Model ----
(***************************************************************************)
(* AutoTrac backend (backend/app): the three tables of models.py and the   *)
(* request handlers of main.py, one action per handler.  Each handler runs *)
(* in its own session and commits once, so a handler is one atomic step.   *)
(*                                                                         *)
(* Timestamps are whole minutes 0..MaxTime; amounts are whole currency     *)
(* units.  A nullable column or Optional field holds None (<<>>) or        *)
(* Some(v) (<<v>>); text is a sequence of one-character strings.           *)
(***************************************************************************)
EXTENDS Integers, Sequences, FiniteSets, TLC

\* ------------------------------------------------------------- bounds
MaxEntries == 2
MaxIncomes == 2
MaxTime == 2

\* ------------------------------------------------------------- values
None == <<>>
Some(v) == <<v>>

\* Python truthiness of an Optional[datetime]: a datetime is always true.
Truthy(opt) == opt # None

\* `text or ""` for an Optional[str]: None and "" both give "".
OrEmpty(opt) == IF opt = None THEN <<>> ELSE opt[1]

Times == 0..MaxTime
OptTimes == {None} \cup {Some(t) : t \in Times}

\* names of the projects the database may hold at startup, and a name none has
ProjectNames == <<"Acme", "Beta">>
FreshName == "Gamma"

Max(S) == CHOOSE x \in S : \A y \in S : y <= x

RECURSIVE SumOver(_, _)
\* sum of f[x] over the finite set S
SumOver(S, f) ==
  IF S = {} THEN 0
  ELSE LET x == CHOOSE y \in S : TRUE IN f[x] + SumOver(S \ {x}, f)

\* ------------------------------------------------------------- state
VARIABLES
  projects,        \* table projects: rows [id, name]
  time_entries,    \* table time_entries: rows [id, project_id, start_time, end_time, note]
  income_records,  \* table income_records: rows [id, project_id, date, amount, source, note]
  now,             \* the wall clock read by datetime.utcnow()
  last             \* the most recent request and its response

vars == <<projects, time_entries, income_records, now, last>>

\* Integer primary key assigned by the store: one more than the largest id.
NextId(table) == IF table = {} THEN 1 ELSE Max({r.id : r \in table}) + 1

\* Keyword arguments the handlers pass to the ORM constructors (the fields of
\* the pydantic request models) and the attributes the mapped classes have.
ProjectCreateFields == {"name", "client", "hourly_rate", "notes"}
ProjectAttributes == {"id", "name", "description", "created_at", "time_entries", "incomes"}
IncomeCreateFields == {"project_id", "date", "amount", "source", "note"}
IncomeRecordAttributes ==
  {"id", "project_id", "date", "amount", "currency", "source", "note", "project"}

\* The declarative constructor raises TypeError for a keyword that is not an
\* attribute of the mapped class.
ConstructorAccepts(kwargs, attributes) == kwargs \subseteq attributes

Response(op, req, status, body) ==
  [op |-> op, req |-> req, status |-> status, body |-> body]

\* a response of a handler that read the clock, with the instant it read
TimedResponse(op, req, status, body) ==
  [op |-> op, req |-> req, status |-> status, body |-> body, at |-> now]

\* db.query(Model).filter_by(id=...).first(): the rows with that primary key
ById(table, id) == {r \in table : r.id = id}

\* Base.metadata.create_all keeps the rows of an existing database: the
\* projects table starts with any number of rows (distinct ids and names).
Init ==
  /\ \E n \in 0..Len(ProjectNames) :
       projects = {[id |-> i, name |-> ProjectNames[i]] : i \in 1..n}
  /\ time_entries = {}
  /\ income_records = {}
  /\ now = 0
  /\ last = Response("startup", None, 200, None)

\* ------------------------------------------------------------- clock
Tick ==
  /\ now < MaxTime
  /\ now' = now + 1
  /\ UNCHANGED <<projects, time_entries, income_records, last>>

\* ------------------------------------------------------------- POST /projects/
create_project(project) ==
  IF ~ConstructorAccepts(ProjectCreateFields, ProjectAttributes)
  THEN \* models.Project(**project.dict()) raises TypeError: nothing is added
       /\ last' = Response("create_project", project, 500, None)
       /\ UNCHANGED <<projects, time_entries, income_records, now>>
  ELSE IF \E p \in projects : p.name = project.name
  THEN \* unique=True on name: the commit raises IntegrityError
       /\ last' = Response("create_project", project, 500, None)
       /\ UNCHANGED <<projects, time_entries, income_records, now>>
  ELSE LET db_project == [id |-> NextId(projects), name |-> project.name] IN
       /\ projects' = projects \cup {db_project}
       /\ last' = Response("create_project", project, 200, Some(db_project))
       /\ UNCHANGED <<time_entries, income_records, now>>

\* create_time_entry without the lookup of the project
create_time_entry_unchecked(entry) ==
  LET db_entry == [id |-> NextId(time_entries),
                   project_id |-> entry.project_id,
                   start_time |-> entry.start_time,
                   end_time |-> entry.end_time,
                   note |-> entry.note] IN
  /\ Cardinality(time_entries) < MaxEntries
  /\ time_entries' = time_entries \cup {db_entry}
  /\ last' = Response("create_time_entry", entry, 200, Some(db_entry))
  /\ UNCHANGED <<projects, income_records, now>>

\* ------------------------------------------------------------- POST /time-entries/
create_time_entry(entry) ==
  IF ById(projects, entry.project_id) = {}
  THEN /\ last' = Response("create_time_entry", entry, 404, None)
       /\ UNCHANGED <<projects, time_entries, income_records, now>>
  ELSE LET db_entry == [id |-> NextId(time_entries),
                        project_id |-> entry.project_id,
                        start_time |-> entry.start_time,
                        end_time |-> entry.end_time,
                        note |-> entry.note] IN
       /\ Cardinality(time_entries) < MaxEntries
       /\ time_entries' = time_entries \cup {db_entry}
       /\ last' = Response("create_time_entry", entry, 200, Some(db_entry))
       /\ UNCHANGED <<projects, income_records, now>>

\* stop_time_entry without the early return for an entry already stopped
stop_time_entry_restamp(entry_id) ==
  IF ById(time_entries, entry_id) = {}
  THEN /\ last' = TimedResponse("stop_time_entry", entry_id, 404, None)
       /\ UNCHANGED <<projects, time_entries, income_records, now>>
  ELSE LET entry == CHOOSE e \in ById(time_entries, entry_id) : TRUE
           stopped == [entry EXCEPT !.end_time = Some(now)] IN
       /\ time_entries' = (time_entries \ {entry}) \cup {stopped}
       /\ last' = TimedResponse("stop_time_entry", entry_id, 200, Some(stopped))
       /\ UNCHANGED <<projects, income_records, now>>

\* stop_time_entry whose UPDATE is not restricted to the entry it looked up
stop_time_entry_every_running(entry_id) ==
  IF ById(time_entries, entry_id) = {}
  THEN /\ last' = TimedResponse("stop_time_entry", entry_id, 404, None)
       /\ UNCHANGED <<projects, time_entries, income_records, now>>
  ELSE LET entry == CHOOSE e \in ById(time_entries, entry_id) : TRUE IN
       IF Truthy(entry.end_time)
       THEN /\ last' = TimedResponse("stop_time_entry", entry_id, 200, Some(entry))
            /\ UNCHANGED <<projects, time_entries, income_records, now>>
       ELSE LET stopped == [entry EXCEPT !.end_time = Some(now)] IN
            /\ time_entries' =
                 {IF Truthy(e.end_time) THEN e ELSE [e EXCEPT !.end_time = Some(now)] :
                    e \in time_entries}
            /\ last' = TimedResponse("stop_time_entry", entry_id, 200, Some(stopped))
            /\ UNCHANGED <<projects, income_records, now>>

\* ------------------------------------------------------------- POST /time-entries/{entry_id}/stop
stop_time_entry(entry_id) ==
  IF ById(time_entries, entry_id) = {}
  THEN /\ last' = TimedResponse("stop_time_entry", entry_id, 404, None)
       /\ UNCHANGED <<projects, time_entries, income_records, now>>
  ELSE LET entry == CHOOSE e \in ById(time_entries, entry_id) : TRUE IN
       IF Truthy(entry.end_time)
       THEN /\ last' = TimedResponse("stop_time_entry", entry_id, 200, Some(entry))
            /\ UNCHANGED <<projects, time_entries, income_records, now>>
       ELSE LET stopped == [entry EXCEPT !.end_time = Some(now)] IN
            /\ time_entries' = (time_entries \ {entry}) \cup {stopped}
            /\ last' = TimedResponse("stop_time_entry", entry_id, 200, Some(stopped))
            /\ UNCHANGED <<projects, income_records, now>>

\* ------------------------------------------------------------- POST /incomes/
create_income(income) ==
  IF ById(projects, income.project_id) = {}
  THEN /\ last' = Response("create_income", income, 404, None)
       /\ UNCHANGED <<projects, time_entries, income_records, now>>
  ELSE IF ~ConstructorAccepts(IncomeCreateFields, IncomeRecordAttributes)
  THEN /\ last' = Response("create_income", income, 500, None)
       /\ UNCHANGED <<projects, time_entries, income_records, now>>
  ELSE LET db_income == [id |-> NextId(income_records),
                         project_id |-> income.project_id,
                         date |-> income.date,
                         amount |-> income.amount,
                         source |-> income.source,
                         note |-> income.note] IN
       /\ Cardinality(income_records) < MaxIncomes
       /\ income_records' = income_records \cup {db_income}
       /\ last' = Response("create_income", income, 200, Some(db_income))
       /\ UNCHANGED <<projects, time_entries, now>>

\* ------------------------------------------------------------- queries
\* a date filter that leaves out the rows on the bounds
InRange_exclusive(t, date_from, date_to) ==
  /\ date_from = None \/ t > date_from[1]
  /\ date_to = None \/ t < date_to[1]

\* q.filter(column >= date_from) and q.filter(column <= date_to), each applied
\* only when the bound is given
InRange(t, date_from, date_to) ==
  /\ date_from = None \/ t >= date_from[1]
  /\ date_to = None \/ t <= date_to[1]

\* the rows of list_time_entries' query (project_id is Optional there)
TimeEntryQuery(project_id, date_from, date_to) ==
  {e \in time_entries :
     /\ project_id = None \/ e.project_id = project_id[1]
     /\ InRange(e.start_time, date_from, date_to)}

\* the rows of list_incomes' query
IncomeQuery(project_id, date_from, date_to) ==
  {i \in income_records :
     /\ project_id = None \/ i.project_id = project_id[1]
     /\ InRange(i.date, date_from, date_to)}

\* order_by(column.asc()).all(): every listing of the rows in ascending order
\* of key[row] (the store is free to order rows with equal keys either way)
Ascending(rows, key) ==
  {s \in [1..Cardinality(rows) -> rows] :
     /\ \A i, j \in 1..Cardinality(rows) : i # j => s[i] # s[j]
     /\ \A i, j \in 1..Cardinality(rows) : i < j => key[s[i]] <= key[s[j]]}

\* order_by(column.desc()).all()
Descending(rows, key) ==
  {s \in [1..Cardinality(rows) -> rows] :
     /\ \A i, j \in 1..Cardinality(rows) : i # j => s[i] # s[j]
     /\ \A i, j \in 1..Cardinality(rows) : i < j => key[s[i]] >= key[s[j]]}

\* the ordering columns
StartTimeOf(entries) == [e \in entries |-> e.start_time]
DateOf(incomes) == [i \in incomes |-> i.date]

Filter(project_id, date_from, date_to) ==
  [project_id |-> project_id, date_from |-> date_from, date_to |-> date_to]

\* ------------------------------------------------------------- GET /projects/
list_projects ==
  /\ last' = Response("list_projects", None, 200, projects)
  /\ UNCHANGED <<projects, time_entries, income_records, now>>

\* ------------------------------------------------------------- GET /time-entries/
list_time_entries(project_id, date_from, date_to) ==
  /\ \E rows \in Descending(TimeEntryQuery(project_id, date_from, date_to),
                            StartTimeOf(time_entries)) :
       last' = Response("list_time_entries",
                        Filter(project_id, date_from, date_to), 200, rows)
  /\ UNCHANGED <<projects, time_entries, income_records, now>>

\* ------------------------------------------------------------- GET /incomes/
list_incomes(project_id, date_from, date_to) ==
  /\ \E rows \in Descending(IncomeQuery(project_id, date_from, date_to),
                            DateOf(income_records)) :
       last' = Response("list_incomes",
                        Filter(project_id, date_from, date_to), 200, rows)
  /\ UNCHANGED <<projects, time_entries, income_records, now>>

\* ------------------------------------------------------------- GET /projects/{project_id}/summary
\* a duration that runs to the clock for a stopped entry too
Delta_open(e, utcnow) == utcnow - e.start_time

\* end_time - start_time, or utcnow() - start_time for a running entry, in minutes
Delta(e, utcnow) ==
  (IF Truthy(e.end_time) THEN e.end_time[1] ELSE utcnow) - e.start_time

\* a guard that lets a total of zero minutes through to the division
RateDefined_zero(total_minutes) == total_minutes >= 0

\* the guard of the division
RateDefined(total_minutes) == total_minutes > 0

\* total_income / (total_minutes / 60), kept as an exact fraction
HourlyRate(total_income, total_minutes) ==
  [num |-> total_income * 60, den |-> total_minutes]

project_summary(project_id, date_from, date_to) ==
  IF ById(projects, project_id) = {}
  THEN /\ last' = Response("project_summary",
                           Filter(project_id, date_from, date_to), 404, None)
       /\ UNCHANGED <<projects, time_entries, income_records, now>>
  ELSE LET project == CHOOSE p \in ById(projects, project_id) : TRUE
           entries == TimeEntryQuery(Some(project_id), date_from, date_to)
           incomes == IncomeQuery(Some(project_id), date_from, date_to)
           total_minutes == SumOver(entries, [e \in entries |-> Delta(e, now)])
           total_income == SumOver(incomes, [i \in incomes |-> i.amount])
           eff_rate == IF RateDefined(total_minutes)
                       THEN Some(HourlyRate(total_income, total_minutes))
                       ELSE None
       IN
       /\ last' = TimedResponse("project_summary",
                                Filter(project_id, date_from, date_to), 200,
                                [project |-> project,
                                 total_minutes |-> total_minutes,
                                 total_income |-> total_income,
                                 effective_hourly_rate |-> eff_rate])
       /\ UNCHANGED <<projects, time_entries, income_records, now>>

\* ------------------------------------------------------------- text and CSV
\* Text is a sequence of tokens: the characters csv.writer treats specially
\* are tokens of their own, any other run of characters may be one token.
Digit == <<"0", "1", "2", "3", "4", "5", "6", "7", "8", "9">>

RECURSIVE NatStr(_)
NatStr(n) ==
  IF n < 10 THEN <<Digit[n + 1]>> ELSE NatStr(n \div 10) \o <<Digit[(n % 10) + 1]>>

\* str(n) of an int
IntStr(n) == IF n < 0 THEN <<"-">> \o NatStr(-n) ELSE NatStr(n)

Pad2(n) == IF n < 10 THEN <<"0">> \o NatStr(n) ELSE NatStr(n)

\* datetime.isoformat(); minute t of the model is t minutes past 2024-01-01T00:00:00
IsoFormat(t) ==
  <<"2024-01-01T">> \o Pad2(t \div 60) \o <<":">> \o Pad2(t % 60) \o <<":", "00">>

\* f"{x:.2f}" of a whole amount
Fixed2(x) == IntStr(x) \o <<".", "00">>

\* csv.writer, excel dialect: delimiter ',', quotechar '"', lineterminator
\* '\r\n', QUOTE_MINIMAL, doublequote
QuoteTriggers == {",", "\"", "\r", "\n"}

RECURSIVE DoubleQuotes(_)
DoubleQuotes(field) ==
  IF field = <<>> THEN <<>>
  ELSE (IF Head(field) = "\"" THEN <<"\"", "\"">> ELSE <<Head(field)>>)
       \o DoubleQuotes(Tail(field))

CsvField(field) ==
  IF \E k \in 1..Len(field) : field[k] \in QuoteTriggers
  THEN <<"\"">> \o DoubleQuotes(field) \o <<"\"">>
  ELSE field

RECURSIVE JoinFields(_)
JoinFields(fields) ==
  IF Len(fields) = 1 THEN CsvField(fields[1])
  ELSE CsvField(Head(fields)) \o <<",">> \o JoinFields(Tail(fields))

\* writer.writerow(fields)
writerow(fields) == JoinFields(fields) \o <<"\r", "\n">>

TimeHeader ==
  << <<"id">>, <<"project_id">>, <<"start_time">>, <<"end_time">>, <<"note">>,
     <<"duration_minutes">> >>
IncomeHeader ==
  << <<"id">>, <<"project_id">>, <<"date">>, <<"amount">>, <<"source">>, <<"note">> >>

\* the row export_time_csv writes for entry e
TimeRow(e, utcnow) ==
  << IntStr(e.id),
     IntStr(e.project_id),
     IsoFormat(e.start_time),
     IF Truthy(e.end_time) THEN IsoFormat(e.end_time[1]) ELSE <<>>,
     OrEmpty(e.note),
     Fixed2(Delta(e, utcnow)) >>

\* the row export_incomes_csv writes for income record inc
IncomeRow(inc) ==
  << IntStr(inc.id),
     IntStr(inc.project_id),
     IsoFormat(inc.date),
     Fixed2(inc.amount),
     OrEmpty(inc.source),
     OrEmpty(inc.note) >>

RECURSIVE WriteTimeRows(_, _)
WriteTimeRows(entries, utcnow) ==
  IF entries = <<>> THEN <<>>
  ELSE writerow(TimeRow(Head(entries), utcnow)) \o WriteTimeRows(Tail(entries), utcnow)

RECURSIVE WriteIncomeRows(_)
WriteIncomeRows(incomes) ==
  IF incomes = <<>> THEN <<>>
  ELSE writerow(IncomeRow(Head(incomes))) \o WriteIncomeRows(Tail(incomes))

CsvResponse(content, filename) ==
  [content |-> content,
   media_type |-> "text/csv",
   content_disposition |-> <<"attachment; filename=\"">> \o filename \o <<"\"">>]

\* ------------------------------------------------------------- GET /projects/{project_id}/export/time.csv
export_time_csv(project_id, date_from, date_to) ==
  /\ \E entries \in Ascending(TimeEntryQuery(Some(project_id), date_from, date_to),
                              StartTimeOf(time_entries)) :
       last' = TimedResponse(
                 "export_time_csv", Filter(project_id, date_from, date_to), 200,
                 CsvResponse(writerow(TimeHeader) \o WriteTimeRows(entries, now),
                             <<"project_">> \o IntStr(project_id)
                               \o <<"_time_entries.csv">>))
  /\ UNCHANGED <<projects, time_entries, income_records, now>>

\* export_incomes_csv without the header row
export_incomes_csv_headless(project_id, date_from, date_to) ==
  /\ \E incomes \in Ascending(IncomeQuery(Some(project_id), date_from, date_to),
                              DateOf(income_records)) :
       last' = Response(
                 "export_incomes_csv", Filter(project_id, date_from, date_to), 200,
                 CsvResponse(WriteIncomeRows(incomes),
                             <<"project_">> \o IntStr(project_id)
                               \o <<"_incomes.csv">>))
  /\ UNCHANGED <<projects, time_entries, income_records, now>>

\* ------------------------------------------------------------- GET /projects/{project_id}/export/incomes.csv
export_incomes_csv(project_id, date_from, date_to) ==
  /\ \E incomes \in Ascending(IncomeQuery(Some(project_id), date_from, date_to),
                              DateOf(income_records)) :
       last' = Response(
                 "export_incomes_csv", Filter(project_id, date_from, date_to), 200,
                 CsvResponse(writerow(IncomeHeader) \o WriteIncomeRows(incomes),
                             <<"project_">> \o IntStr(project_id)
                               \o <<"_incomes.csv">>))
  /\ UNCHANGED <<projects, time_entries, income_records, now>>

\* ------------------------------------------------------------- requests
\* project ids and entry ids a request may name: every id a row can have,
\* and one more that no row has
ProjectIds == 1..(Len(ProjectNames) + 1)
EntryIds == 1..(MaxEntries + 1)

ProjectCreates == [name : {ProjectNames[k] : k \in 1..Len(ProjectNames)} \cup {FreshName}]

\* ------------------------------------------------------------- every handler
\* start_time, date and amount are read by no writing handler: one value each
TimeEntryCreates ==
  [project_id : ProjectIds, start_time : {0}, end_time : OptTimes, note : {None}]

IncomeCreates ==
  [project_id : ProjectIds, date : {0}, amount : {2}, source : {None}, note : {None}]

Next ==
  \/ Tick
  \/ \E project \in ProjectCreates : create_project(project)
  \/ list_projects
  \/ \E entry \in TimeEntryCreates : create_time_entry(entry)
  \/ \E entry_id \in EntryIds : stop_time_entry(entry_id)
  \/ \E project_id \in {None, Some(1)} : list_time_entries(project_id, None, None)
  \/ \E income \in IncomeCreates : create_income(income)
  \/ \E project_id \in {None, Some(1)} : list_incomes(project_id, None, None)
  \/ \E project_id \in ProjectIds : project_summary(project_id, None, None)
  \/ \E project_id \in ProjectIds : export_time_csv(project_id, None, None)
  \/ \E project_id \in ProjectIds : export_incomes_csv(project_id, None, None)

Spec == Init /\ [][Next]_vars

\* ------------------------------------------------------------- the creating handlers
CreateEntryRequests ==
  [project_id : ProjectIds, start_time : {0}, end_time : {None, Some(1)}, note : {None}]

CreateIncomeRequests ==
  [project_id : ProjectIds, date : {0}, amount : {2}, source : {None}, note : {None}]

NextCreate ==
  \/ \E project \in ProjectCreates : create_project(project)
  \/ \E entry \in CreateEntryRequests : create_time_entry(entry)
  \/ \E income \in CreateIncomeRequests : create_income(income)

SpecCreate == Init /\ [][NextCreate]_vars

\* ------------------------------------------------------------- starting and stopping entries
StopIncomeRequests ==
  [project_id : {1}, date : {0}, amount : {2}, source : {None}, note : {None}]

NextStop ==
  \/ Tick
  \/ \E entry \in CreateEntryRequests : create_time_entry(entry)
  \/ \E entry_id \in EntryIds : stop_time_entry(entry_id)
  \/ \E income \in StopIncomeRequests : create_income(income)

SpecStop == Init /\ [][NextStop]_vars

\* ------------------------------------------------------------- listing time entries
ListEntryRequests ==
  [project_id : ProjectIds, start_time : Times, end_time : {None}, note : {None}]

ListBounds == {None} \cup {Some(t) : t \in 1..MaxTime}

NextList ==
  \/ \E entry \in ListEntryRequests : create_time_entry(entry)
  \/ \E project_id \in {None} \cup {Some(p) : p \in ProjectIds},
        date_from \in ListBounds, date_to \in ListBounds :
       list_time_entries(project_id, date_from, date_to)

SpecList == Init /\ [][NextList]_vars

\* ------------------------------------------------------------- summaries: the rate
\* without the clock moving: durations of 0, -1, 1 and 2 minutes come from the
\* entries' own times, income (gained or refunded) in or out of the window
\* from date_to
RateEntryRequests ==
  [project_id : {1, 2}, start_time : {0, 1}, end_time : {None, Some(0), Some(2)},
   note : {None}]

RateIncomeRequests ==
  [project_id : {1}, date : {1}, amount : {-1, 2}, source : {None}, note : {None}]

SummaryBounds == {None, Some(0)}

NextRate ==
  \/ \E entry \in RateEntryRequests : create_time_entry(entry)
  \/ \E income \in RateIncomeRequests : create_income(income)
  \/ \E project_id \in ProjectIds, date_to \in SummaryBounds :
       project_summary(project_id, None, date_to)

SpecRate == Init /\ [][NextRate]_vars

\* ------------------------------------------------------------- summaries: elapsed time
ElapsedEntryRequests ==
  [project_id : {1}, start_time : {0, 1}, end_time : {None, Some(1)}, note : {None}]

NextElapsed ==
  \/ Tick
  \/ \E entry \in ElapsedEntryRequests : create_time_entry(entry)
  \/ \E entry_id \in EntryIds : stop_time_entry(entry_id)
  \/ \E project_id \in ProjectIds, date_to \in SummaryBounds :
       project_summary(project_id, None, date_to)

SpecElapsed == Init /\ [][NextElapsed]_vars

\* ------------------------------------------------------------- income export
ExportSources == {None, Some(<<>>), Some(<<"a", "\n">>)}
ExportNotes == {None, Some(<<",", "\"">>)}

ExportIncomeRequests ==
  [project_id : {1}, date : {0, 1}, amount : {2},
   source : ExportSources, note : ExportNotes]

ExportBounds == {None, Some(1)}

NextExport ==
  \/ \E income \in ExportIncomeRequests : create_income(income)
  \/ \E project_id \in {1, Len(ProjectNames) + 1},
        date_from \in ExportBounds, date_to \in ExportBounds :
       export_incomes_csv(project_id, date_from, date_to)

SpecExport == Init /\ [][NextExport]_vars

\* ------------------------------------------------------------- properties
Known(project_id) == \E p \in projects : p.id = project_id

\* C1: create_time_entry and create_income for a project_id that is no stored
\* project's id answer 404 and leave the time entries and income records as
\* they were; after every step each stored time entry and income record
\* references a stored project.
C1_UnknownProjectNeverPersists ==
  [][ /\ ( /\ last'.op \in {"create_time_entry", "create_income"}
           /\ ~Known(last'.req.project_id) )
         => /\ last'.status = 404
            /\ time_entries' = time_entries
            /\ income_records' = income_records
      /\ \A e \in time_entries' : \E p \in projects' : p.id = e.project_id
      /\ \A i \in income_records' : \E p \in projects' : p.id = i.project_id
    ]_vars

\* a create for an unknown project was refused while entries and incomes are stored
C1_Witness ==
  /\ last.op = "create_income"
  /\ last.status = 404
  /\ ~Known(last.req.project_id)
  /\ time_entries # {}
  /\ income_records # {}

\* C2: a stop of a running entry sets its end_time to the clock; a stop of an
\* entry whose end_time is set returns the entry with that end_time; no step
\* changes an end_time that is set.
C2_StopIdempotent ==
  [][ /\ \A e \in time_entries :
           Truthy(e.end_time) =>
             \E f \in time_entries' : f.id = e.id /\ f.end_time = e.end_time
      /\ ( /\ last'.op = "stop_time_entry"
           /\ last'.status = 200 )
         => \E e \in time_entries, f \in time_entries' :
              /\ e.id = last'.req
              /\ f.id = last'.req
              /\ last'.body = Some(f)
              /\ f.end_time = (IF e.end_time = None THEN Some(now) ELSE e.end_time)
    ]_vars

\* a stop answered at a clock value later than the end_time it returned
C2_Witness ==
  /\ last.op = "stop_time_entry"
  /\ last.status = 200
  /\ last.body[1].end_time[1] < last.at
  /\ last.body[1] \in time_entries

\* C9: a stop for an id no stored entry has answers 404 and changes nothing;
\* a stop that succeeds changes at most the end_time of the entry it names.
C9_StopFrame ==
  [][ ( /\ last'.op = "stop_time_entry"
        /\ last' # last )
      => /\ projects' = projects
         /\ income_records' = income_records
         /\ IF \A e \in time_entries : e.id # last'.req
            THEN /\ last'.status = 404
                 /\ time_entries' = time_entries
            ELSE /\ last'.status = 200
                 /\ {e \in time_entries' : e.id # last'.req}
                      = {e \in time_entries : e.id # last'.req}
                 /\ \E e \in time_entries, f \in time_entries' :
                      /\ e.id = last'.req
                      /\ f = [e EXCEPT !.end_time = f.end_time]
    ]_vars

\* a stop set the end_time of one entry while another entry is still running
\* and an income record is stored
C9_Witness ==
  /\ last.op = "stop_time_entry"
  /\ last.status = 200
  /\ last.body[1].end_time = Some(last.at)
  /\ \E e \in time_entries : e.id # last.req /\ e.end_time = None
  /\ income_records # {}

\* whether timestamp t lies within the optional inclusive bounds
Within(t, date_from, date_to) ==
  /\ \A lo \in Times : date_from = Some(lo) => lo <= t
  /\ \A hi \in Times : date_to = Some(hi) => t <= hi

\* C4: list_time_entries returns exactly the stored entries (of the project,
\* when project_id is given) with date_from <= start_time <= date_to, each
\* once; both bounds are inclusive and an omitted bound does not restrict.
C4_ListExactlyWithinBounds ==
  last.op = "list_time_entries" =>
    /\ last.status = 200
    /\ \A k, m \in DOMAIN last.body : k # m => last.body[k] # last.body[m]
    /\ {last.body[k] : k \in DOMAIN last.body}
         = {e \in time_entries :
              /\ last.req.project_id \in {None, Some(e.project_id)}
              /\ Within(e.start_time, last.req.date_from, last.req.date_to)}

\* a listing with both bounds given that returns one entry starting at
\* date_from and one starting at date_to, and leaves a stored entry out
C4_Witness ==
  /\ last.op = "list_time_entries"
  /\ last.req.date_from # None
  /\ last.req.date_to # None
  /\ \E k \in DOMAIN last.body : last.body[k].start_time = last.req.date_from[1]
  /\ \E k \in DOMAIN last.body : last.body[k].start_time = last.req.date_to[1]
  /\ Len(last.body) < Cardinality(time_entries)

\* C5: the summary gives effective_hourly_rate = total_income /
\* (total_minutes / 60) exactly when total_minutes > 0 and no rate otherwise;
\* with no time entry and no income record in the window it is 0, 0, absent.
C5_RateOnlyForPositiveMinutes ==
  (last.op = "project_summary" /\ last.status = 200) =>
    LET body == last.body
        rate == body.effective_hourly_rate
        window(t) == Within(t, last.req.date_from, last.req.date_to)
    IN
    /\ body.total_minutes > 0 =>
         /\ rate # None
         /\ rate[1].den # 0
         /\ rate[1].num * body.total_minutes = body.total_income * 60 * rate[1].den
    /\ body.total_minutes <= 0 => rate = None
    /\ ( /\ \A e \in time_entries :
              e.project_id = last.req.project_id => ~window(e.start_time)
         /\ \A i \in income_records :
              i.project_id = last.req.project_id => ~window(i.date) )
       => /\ body.total_minutes = 0
          /\ body.total_income = 0
          /\ rate = None

\* a summary with income but a total of zero minutes: the division is skipped
C5_Witness ==
  /\ last.op = "project_summary"
  /\ last.status = 200
  /\ last.body.total_minutes = 0
  /\ last.body.total_income > 0
  /\ last.body.effective_hourly_rate = None

\* the minutes entry e counts for at instant t
Elapsed(e, t) == IF e.end_time = None THEN t - e.start_time
                 ELSE e.end_time[1] - e.start_time

\* C6: total_minutes is the sum over the matching entries of (end_time if set,
\* else the clock at the request) - start_time: for a single running entry it
\* is clock - start_time, for a single stopped entry end_time - start_time
\* whatever the clock.
C6_TotalMinutes ==
  (last.op = "project_summary" /\ last.status = 200) =>
    LET matching == {e \in time_entries :
                       /\ e.project_id = last.req.project_id
                       /\ Within(e.start_time, last.req.date_from, last.req.date_to)}
    IN
    /\ last.body.total_minutes
         = SumOver(matching, [e \in matching |-> Elapsed(e, last.at)])
    /\ \A e \in matching :
         matching = {e} =>
           last.body.total_minutes
             = (IF e.end_time = None THEN last.at ELSE e.end_time[1]) - e.start_time

\* a summary of a project whose single entry was stopped before the request:
\* the total is end_time - start_time, less than the clock would give
C6_Witness ==
  /\ last.op = "project_summary"
  /\ last.status = 200
  /\ \E e \in time_entries :
       /\ time_entries = {e}
       /\ e.project_id = last.req.project_id
       /\ e.end_time # None
       /\ e.end_time[1] > e.start_time
       /\ e.end_time[1] < last.at
       /\ last.body.total_minutes = e.end_time[1] - e.start_time

RECURSIVE LineBreaks(_)
\* the line breaks of a text: CR LF, a lone LF and a lone CR each end a line
LineBreaks(text) ==
  IF text = <<>> THEN 0
  ELSE IF Len(text) >= 2 /\ text[1] = "\r" /\ text[2] = "\n"
  THEN 1 + LineBreaks(SubSeq(text, 3, Len(text)))
  ELSE (IF Head(text) \in {"\r", "\n"} THEN 1 ELSE 0) + LineBreaks(Tail(text))

RECURSIVE SplitLines(_, _)
\* the lines of a text (after the line begun in `line`), without their breaks
SplitLines(text, line) ==
  IF text = <<>> THEN (IF line = <<>> THEN <<>> ELSE <<line>>)
  ELSE IF Len(text) >= 2 /\ text[1] = "\r" /\ text[2] = "\n"
  THEN <<line>> \o SplitLines(SubSeq(text, 3, Len(text)), <<>>)
  ELSE IF Head(text) \in {"\r", "\n"}
  THEN <<line>> \o SplitLines(Tail(text), <<>>)
  ELSE SplitLines(Tail(text), Append(line, Head(text)))

\* the text of an optional field as the export shows it
Shown(opt) == IF opt = None THEN <<>> ELSE opt[1]

\* the income records an export request selects
Exported(req) ==
  {i \in income_records :
     /\ i.project_id = req.project_id
     /\ Within(i.date, req.date_from, req.date_to)}

\* the line breaks inside the source and note fields of the records
EmbeddedBreaks(records) ==
  SumOver(records,
          [i \in records |-> LineBreaks(Shown(i.source)) + LineBreaks(Shown(i.note))])

IsPrefix(pre, text) == Len(pre) <= Len(text) /\ SubSeq(text, 1, Len(pre)) = pre

HeaderLine ==
  <<"id", ",", "project_id", ",", "date", ",", "amount", ",", "source", ",", "note">>

\* C8 as stated: the income export of N matching records has exactly N + 1
\* lines, whatever the records' source and note fields hold.
C8_AlwaysNPlusOneLines ==
  last.op = "export_incomes_csv" =>
    Len(SplitLines(last.body.content, <<>>)) = Cardinality(Exported(last.req)) + 1

\* C8 amended: the income export is the header line followed by one CSV record
\* per matching income record in ascending date order, absent fields shown
\* empty; it has N + 1 lines plus one line for each line break inside a
\* source or note field of a matching record, so exactly N + 1 lines when no
\* such field holds a line break.
C8_LinesOfIncomeExport ==
  last.op = "export_incomes_csv" =>
    LET matching == Exported(last.req)
        N == Cardinality(matching)
        lines == SplitLines(last.body.content, <<>>)
    IN
    /\ last.status = 200
    /\ Len(lines) = N + 1 + EmbeddedBreaks(matching)
    /\ lines[1] = HeaderLine
    /\ EmbeddedBreaks(matching) = 0 =>
         \E rows \in [1..N -> matching] :
           /\ \A k, m \in 1..N : k # m => rows[k] # rows[m]
           /\ \A k, m \in 1..N : k < m => rows[k].date <= rows[m].date
           /\ \A k \in 1..N :
                LET start == IntStr(rows[k].id) \o <<",">>
                               \o IntStr(rows[k].project_id) \o <<",">>
                               \o IsoFormat(rows[k].date) \o <<",">>
                               \o Fixed2(rows[k].amount) \o <<",">>
                    plain == \A c \in QuoteTriggers :
                               /\ \A x \in DOMAIN Shown(rows[k].source) :
                                    Shown(rows[k].source)[x] # c
                               /\ \A x \in DOMAIN Shown(rows[k].note) :
                                    Shown(rows[k].note)[x] # c
                IN /\ IsPrefix(start, lines[k + 1])
                   /\ plain => lines[k + 1] = start \o Shown(rows[k].source)
                                                \o <<",">> \o Shown(rows[k].note)

\* an export of two records of different dates, neither with a line break in
\* a field, one without a source and one whose note must be quoted
C8_Witness ==
  /\ last.op = "export_incomes_csv"
  /\ Cardinality(Exported(last.req)) = 2
  /\ EmbeddedBreaks(Exported(last.req)) = 0
  /\ \E i, j \in Exported(last.req) :
       /\ i.date < j.date
       /\ i.source = None
       /\ j.note = Some(<<",", "\"">>)

\* C3 as stated: a project that owns time entries and income records can be
\* deleted, and the step that deletes it removes its time entries and income
\* records and leaves the other projects' records as they are.
C3_DeleteProjectCascades ==
  \A p \in projects :
    ( /\ \E e \in time_entries : e.project_id = p.id
      /\ \E i \in income_records : i.project_id = p.id )
    => ENABLED ( /\ Next
                 /\ projects' = projects \ {p}
                 /\ time_entries' = {e \in time_entries : e.project_id # p.id}
                 /\ income_records' = {i \in income_records : i.project_id # p.id} )

\* C7 as stated: the summary and both exports answer 404 for a project id
\* that no stored project has.
C7_LookupsOfMissingProjectFail ==
  ( /\ last.op \in {"project_summary", "export_time_csv", "export_incomes_csv"}
    /\ ~Known(last.req.project_id) )
  => last.status = 404

\* C10 as stated: project names stay unique; create_project with the name of
\* a stored project adds no project, and with a fresh name it adds exactly one
\* project of that name with a new id.
C10_CreateProjectPolicy ==
  [][ /\ \A p, q \in projects' : p.name = q.name => p = q
      /\ ( /\ last'.op = "create_project"
           /\ last' # last )
         => IF \E p \in projects : p.name = last'.req.name
            THEN projects' = projects
            ELSE \E p \in projects' :
                   /\ p.name = last'.req.name
                   /\ \A q \in projects : q.id # p.id
                   /\ projects' = projects \cup {p}
    ]_vars

====
